---- MODULE Spec2Model ----
(***************************************************************************)
(* Internship watcher: the scan orchestrators (03_watch_once.py and        *)
(* watch_core.run_scan), the seen ledger, the details cache, the platform  *)
(* classifier and enricher (adapters.py) and the parallel enrichment       *)
(* script (04_enrich_via_adapters_fast.py).                                *)
(***************************************************************************)
EXTENDS Integers, Sequences, FiniteSets, TLC

(***************************************************************************)
(* Bounds of the model.                                                    *)
(***************************************************************************)
MaxRuns == 2

MaxOps == 3

(***************************************************************************)
(* Sample URLs.  A URL is kept as the string the source document holds;    *)
(* urlparse gives what urllib.parse.urlparse makes of it.                  *)
(***************************************************************************)
uA == "https://jobs.lever.co/acme/abc123"

uB == "https://boards.greenhouse.io/beta/jobs/42"

uBad == "https://[lever.co/x/y"

uSite == "https://acme.com"

uLever1 == "https://jobs.lever.co/acme"

uGhSlug == "https://boards.greenhouse.io/beta/jobs/swe-intern"

uAshby == "https://jobs.ashbyhq.com/gamma/swe-intern"

uSmartId == "https://jobs.smartrecruiters.com/delta/743999-swe-intern"

uSmartSlug == "https://jobs.smartrecruiters.com/delta/swe-intern"

uRecruitee == "https://eps.recruitee.com/o/swe-intern"

uBamboo == "https://zeta.bamboohr.com/careers/12"

uWorkday == "https://eta.wd1.myworkdayjobs.com/ext/job/swe"

uSimplify == "https://www.simplify.jobs/p/abc"

uOracle == "https://theta.fa.oraclecloud.com/hcmUI/job/7"

uNoScheme == "not a url"

\* a link off the ATS hosts whose path holds an ATS domain name
uCdn == "https://cdn.example.com/lever.co/acme.pdf"

\* the aggregator placeholder spelled with capitals
uTopCaps == "https://simplify.jobs/Top-List"

uLeverCom == "https://jobs.lever.com/acme/abc123"

EnrichUrls ==
    {uA, uB, uBad, uSite, uLever1, uGhSlug, uAshby, uSmartId, uSmartSlug,
     uRecruitee, uBamboo, uWorkday, uSimplify, uOracle, uNoScheme, uLeverCom}

\* urllib.parse.urlparse on the sample URLs: it raises ValueError ("Invalid
\* IPv6 URL") on an unbalanced bracket in the netloc; otherwise scheme, the
\* netloc as its dot-separated labels, and the path's non-empty segments.
urlparse(url) ==
    CASE url = uA -> [raises |-> FALSE, scheme |-> "https",
                      host |-> <<"jobs", "lever", "co">>, parts |-> <<"acme", "abc123">>]
      [] url = uB -> [raises |-> FALSE, scheme |-> "https",
                      host |-> <<"boards", "greenhouse", "io">>, parts |-> <<"beta", "jobs", "42">>]
      [] url = uBad -> [raises |-> TRUE, scheme |-> "https", host |-> <<>>, parts |-> <<>>]
      [] url = uSite -> [raises |-> FALSE, scheme |-> "https",
                      host |-> <<"acme", "com">>, parts |-> <<>>]
      [] url = uLever1 -> [raises |-> FALSE, scheme |-> "https",
                      host |-> <<"jobs", "lever", "co">>, parts |-> <<"acme">>]
      [] url = uGhSlug -> [raises |-> FALSE, scheme |-> "https",
                      host |-> <<"boards", "greenhouse", "io">>,
                      parts |-> <<"beta", "jobs", "swe-intern">>]
      [] url = uAshby -> [raises |-> FALSE, scheme |-> "https",
                      host |-> <<"jobs", "ashbyhq", "com">>, parts |-> <<"gamma", "swe-intern">>]
      [] url = uSmartId -> [raises |-> FALSE, scheme |-> "https",
                      host |-> <<"jobs", "smartrecruiters", "com">>,
                      parts |-> <<"delta", "743999-swe-intern">>]
      [] url = uSmartSlug -> [raises |-> FALSE, scheme |-> "https",
                      host |-> <<"jobs", "smartrecruiters", "com">>,
                      parts |-> <<"delta", "swe-intern">>]
      [] url = uRecruitee -> [raises |-> FALSE, scheme |-> "https",
                      host |-> <<"eps", "recruitee", "com">>, parts |-> <<"o", "swe-intern">>]
      [] url = uBamboo -> [raises |-> FALSE, scheme |-> "https",
                      host |-> <<"zeta", "bamboohr", "com">>, parts |-> <<"careers", "12">>]
      [] url = uWorkday -> [raises |-> FALSE, scheme |-> "https",
                      host |-> <<"eta", "wd1", "myworkdayjobs", "com">>,
                      parts |-> <<"ext", "job", "swe">>]
      [] url = uSimplify -> [raises |-> FALSE, scheme |-> "https",
                      host |-> <<"www", "simplify", "jobs">>, parts |-> <<"p", "abc">>]
      [] url = uOracle -> [raises |-> FALSE, scheme |-> "https",
                      host |-> <<"theta", "fa", "oraclecloud", "com">>,
                      parts |-> <<"hcmUI", "job", "7">>]
      [] url = uCdn -> [raises |-> FALSE, scheme |-> "https",
                      host |-> <<"cdn", "example", "com">>, parts |-> <<"lever.co", "acme.pdf">>]
      [] url = uTopCaps -> [raises |-> FALSE, scheme |-> "https",
                      host |-> <<"simplify", "jobs">>, parts |-> <<"Top-List">>]
      [] url = uLeverCom -> [raises |-> FALSE, scheme |-> "https",
                      host |-> <<"jobs", "lever", "com">>, parts |-> <<"acme", "abc123">>]
      [] OTHER -> [raises |-> FALSE, scheme |-> "", host |-> <<>>, parts |-> <<"not a url">>]

(***************************************************************************)
(* String helpers on the sample vocabulary.                                *)
(***************************************************************************)
\* s.endswith(t) / s.startswith(t) for host labels
LabelEndsWith(l, s) == l = s \/ <<l, s>> \in {<<"notlever", "lever">>}

LabelStartsWith(l, s) == l = s \/ <<l, s>> \in {<<"com", "co">>, <<"company", "co">>}

\* "<a>.<b>" in host, host the dotted string of its labels (Python substring test)
HostContains(host, a, b) ==
    \E i \in 1..(Len(host) - 1) :
        LabelEndsWith(host[i], a) /\ LabelStartsWith(host[i + 1], b)

\* host.endswith("<a>.<b>")
HostEndsWith(host, a, b) ==
    Len(host) >= 2 /\ LabelEndsWith(host[Len(host) - 1], a) /\ host[Len(host)] = b

\* netloc.lower().replace("www.", "") on the labels
StripWww(host) == SelectSeq(host, LAMBDA l : l # "www")

\* str.isdigit()
IsDigit(s) == s \in {"42", "12", "7"}

\* re.match(r"(\d+)", s): the leading digits, "" when there are none
LeadingDigits(s) ==
    CASE s = "743999-swe-intern" -> "743999"
      [] IsDigit(s) -> s
      [] OTHER -> ""

\* dict.get(key) with a missing key read as the empty string
Get(d, k) == IF k \in DOMAIN d THEN d[k] ELSE ""

(***************************************************************************)
(* adapters.py: the platform classifier.                                   *)
(***************************************************************************)
\* detect(url) for a URL urlparse accepts; the rules are tried in this order
detect(url) ==
    LET u == urlparse(url)
        host == StripWww(u.host)
        parts == u.parts
        n == Len(parts)
    IN  IF HostContains(host, "lever", "co") /\ n >= 2
        THEN [provider |-> "lever", company |-> parts[1], job |-> parts[2]]
        ELSE IF HostContains(host, "greenhouse", "io") /\ n >= 3 /\ parts[2] = "jobs"
        THEN [provider |-> "greenhouse", company |-> parts[1],
              id |-> IF IsDigit(parts[3]) THEN parts[3] ELSE ""]
        ELSE IF HostContains(host, "ashbyhq", "com") /\ n >= 2
        THEN [provider |-> "ashby", company |-> parts[1], slug |-> parts[n]]
        ELSE IF HostContains(host, "smartrecruiters", "com") /\ n >= 2
        THEN [provider |-> "smartrecruiters", company |-> parts[1],
              id |-> LeadingDigits(parts[n])]
        ELSE IF HostEndsWith(host, "recruitee", "com")
        THEN [provider |-> "recruitee", company |-> host[1],
              slug |-> IF n > 0 THEN parts[n] ELSE ""]
        ELSE IF HostEndsWith(host, "bamboohr", "com")
        THEN [provider |-> "bamboohr", company |-> host[1]]
        ELSE IF HostContains(host, "myworkdayjobs", "com") \/ HostContains(host, "workday", "com")
        THEN [provider |-> "workday"]
        ELSE IF HostContains(host, "simplify", "jobs")
        THEN [provider |-> "simplify"]
        ELSE IF HostContains(host, "oraclecloud", "com")
        THEN [provider |-> "oracle"]
        ELSE [provider |-> "generic"]

(***************************************************************************)
(* adapters.py: the enricher.  net is what the network answers during one  *)
(* call: net.api to the vendor JSON request, net.html to the GET of the    *)
(* page itself.                                                            *)
(***************************************************************************)
ApiResponses == {"unreachable", "http_error", "non_json", "array", "empty", "nomatch", "good"}

HtmlResponses == {"unreachable", "http_error", "plain", "good"}

Nets == [api : ApiResponses, html : HtmlResponses]

ApiTitle == "SWE Intern"

ApiLocation == "Remote"

\* the outcome of a call: an exception reaching the caller, or a returned dict
Raised == [raised |-> TRUE, title |-> "", location |-> ""]

Ret(t, l) == [raised |-> FALSE, title |-> t, location |-> l]

\* _get_json: requests.get, raise_for_status, r.json() -- any of them may raise
get_json_raises(net) == net.api \in {"unreachable", "http_error", "non_json"}

\* _get_html: requests.get rejects a URL without http(s) scheme, raise_for_status
get_html_raises(url, net) ==
    \/ urlparse(url).scheme \notin {"http", "https"}
    \/ net.html \in {"unreachable", "http_error"}

\* _og_meta: title and location guess from the page's meta tags
og_meta(html) ==
    IF html = "good" THEN [title |-> ApiTitle, location |-> ApiLocation]
    ELSE [title |-> "", location |-> ""]

\* the last branch of enrich_from_url: scrape the page; an exception is caught
\* by the enclosing try and becomes empty strings
HtmlFallback(url, net) ==
    IF get_html_raises(url, net) THEN Ret("", "")
    ELSE Ret(og_meta(net.html).title, og_meta(net.html).location)

\* the body of the try block, by provider
EnrichBody(url, info, net) ==
    LET prov == info.provider
        viaApi == \/ prov = "lever" /\ Get(info, "company") # "" /\ Get(info, "job") # ""
                  \/ prov = "greenhouse" /\ Get(info, "company") # "" /\ Get(info, "id") # ""
                  \/ prov = "ashby" /\ Get(info, "company") # ""
                  \/ prov = "smartrecruiters" /\ Get(info, "company") # "" /\ Get(info, "id") # ""
                  \/ prov = "recruitee" /\ Get(info, "company") # ""
                  \/ prov = "bamboohr" /\ Get(info, "company") # ""
    IN  IF ~viaApi THEN HtmlFallback(url, net)
        ELSE IF get_json_raises(net) THEN Ret("", "")
        ELSE IF net.api = "array" THEN Ret("", "")
        ELSE IF net.api = "empty"
        THEN IF prov \in {"ashby", "recruitee", "bamboohr"}
             THEN HtmlFallback(url, net)
             ELSE Ret("", "")
        ELSE IF net.api = "nomatch" /\ prov \in {"ashby", "recruitee"}
        THEN Ret(ApiTitle, "")
        ELSE Ret(ApiTitle, ApiLocation)

\* enrich_from_url: detect(url) runs before the try block, so what urlparse
\* raises reaches the caller
enrich_from_url(url, net) ==
    IF urlparse(url).raises THEN Raised
    ELSE EnrichBody(url, detect(url), net)

\* detect(url).get("provider", "") as the callers of details_cache.put use it
ProviderOf(url) == detect(url).provider

(***************************************************************************)
(* Source documents.  A markdown document is its sequence of lines; a      *)
(* line is a heading (roles: its title is a recognized role section) or a  *)
(* text line with the (text, url) links the link patterns find in it.      *)
(***************************************************************************)
Heading(isRoles) == [heading |-> TRUE, roles |-> isRoles, links |-> <<>>]

Text(ls) == [heading |-> FALSE, roles |-> FALSE, links |-> ls]

Link(t, u) == [text |-> t, url |-> u]

uTop == "https://simplify.jobs/top-list"

LineA == Text(<<Link("Acme", uSite), Link("Apply", uA)>>)

LineB == Text(<<Link("Beta", uB)>>)

LineBad == Text(<<Link("Gamma", uBad)>>)

\* more lines: a heading that carries a link, a line whose last ATS link is
\* the aggregator placeholder, the same with capitals, a line whose last link
\* is off the ATS hosts but names one in its path, a line without ATS link
HeadingLink == [heading |-> TRUE, roles |-> TRUE, links |-> <<Link("Beta", uB)>>]

LineTop == Text(<<Link("Delta", uA), Link("Top", uTop)>>)

LineTopCaps == Text(<<Link("Gamma", uTopCaps)>>)

LineCdn == Text(<<Link("Acme", uA), Link("PDF", uCdn)>>)

LineSite == Text(<<Link("Acme", uSite)>>)

Doc1 == <<Heading(TRUE), LineA>>

Doc2 == <<Heading(TRUE), LineA, LineB>>

DocBad == <<Heading(TRUE), LineBad, LineB>>

\* the README after the company's name was respelled in capitals
LineCaps == Text(<<Link("ACME", uSite), Link("Apply", uA)>>)

DocCaps == <<Heading(TRUE), LineCaps>>

Docs == {Doc1, Doc2, DocBad, DocCaps}

\* the READMEs of the repositories listed in sources.json
SourceDocs == {Doc1, Doc2}

\* any(d in url.lower() for d in ATS_DOMAINS): a substring test on the URL text
HasAtsDomain(url) ==
    url \in {uA, uB, uBad, uLever1, uGhSlug, uAshby, uSmartId, uSmartSlug,
             uRecruitee, uBamboo, uWorkday, uSimplify, uOracle, uTop, uCdn, uTopCaps}

\* HasTopList with the test left out
HasTopListNever(url) == FALSE

\* "top-list" in url
HasTopList(url) == url = uTop

\* re.search(r"apply|here|link|^image:", text, re.I)
IsGenericText(t) == t \in {"Apply", "apply", "here", "Link", "image: logo"}

\* str.strip() and str.lower() on the sample vocabulary
Strip(s) ==
    CASE s = "Acme " -> "Acme"
      [] s = " Acme" -> "Acme"
      [] OTHER -> s

Lower(s) ==
    CASE s = "Acme" -> "acme"
      [] s = "ACME" -> "acme"
      [] s = "Acme " -> "acme "
      [] s = "Beta" -> "beta"
      [] s = "Gamma" -> "gamma"
      [] s = "SWE Intern" -> "swe intern"
      [] s = "Remote" -> "remote"
      [] s = "Delta" -> "delta"
      [] s = uTopCaps -> uTop
      [] OTHER -> s

\* u.netloc.replace("www.", "") as text, for a URL urlparse accepts
Netloc(url) ==
    CASE url = uA -> "jobs.lever.co"
      [] url = uB -> "boards.greenhouse.io"
      [] url = uTop -> "simplify.jobs"
      [] url = uTopCaps -> "simplify.jobs"
      [] url = uCdn -> "cdn.example.com"
      [] OTHER -> "acme.com"

Range(s) == {s[k] : k \in 1..Len(s)}

Max(S) == CHOOSE x \in S : \A y \in S : y <= x

Min(S) == CHOOSE x \in S : \A y \in S : x <= y

(***************************************************************************)
(* 03_watch_once.py: parse_jobs, one line at a time.                       *)
(***************************************************************************)
\* the row a text line inside a role section yields: skip, a row, or raise
ParseLine(line) ==
    LET links == line.links
        ats == {k \in 1..Len(links) : HasAtsDomain(Lower(links[k].url))}
        app_url == IF ats = {} THEN "" ELSE Strip(links[Max(ats)].url)
        named == {k \in 1..Len(links) :
                    links[k].text # "" /\ ~IsGenericText(links[k].text)}
    IN  IF links = <<>> \/ app_url = "" \/ HasTopList(app_url)
        THEN [raises |-> FALSE, rows |-> <<>>]
        ELSE IF named # {}
        THEN [raises |-> FALSE,
              rows |-> <<[company |-> Strip(links[Min(named)].text), url |-> app_url]>>]
        ELSE IF urlparse(app_url).raises
        THEN [raises |-> TRUE, rows |-> <<>>]
        ELSE [raises |-> FALSE, rows |-> <<[company |-> Netloc(app_url), url |-> app_url]>>]

RECURSIVE ParseFrom(_, _, _)
ParseFrom(md, i, in_section) ==
    IF i > Len(md) THEN [raises |-> FALSE, rows |-> <<>>]
    ELSE IF md[i].heading THEN ParseFrom(md, i + 1, md[i].roles)
    ELSE IF ~in_section THEN ParseFrom(md, i + 1, in_section)
    ELSE LET here == ParseLine(md[i])
             rest == ParseFrom(md, i + 1, in_section)
         IN  [raises |-> here.raises \/ rest.raises, rows |-> here.rows \o rest.rows]

parse_jobs(md) == ParseFrom(md, 1, FALSE)

\* the de-dupe loop: first occurrence of each (company.strip().lower(), url.strip())
DedupKey(r) == <<Lower(Strip(r.company)), Strip(r.url)>>

RECURSIVE DedupFrom(_, _, _)
DedupFrom(rows, i, keys) ==
    IF i > Len(rows) THEN <<>>
    ELSE IF DedupKey(rows[i]) \in keys THEN DedupFrom(rows, i + 1, keys)
    ELSE <<rows[i]>> \o DedupFrom(rows, i + 1, keys \cup {DedupKey(rows[i])})

Dedupe(rows) == DedupFrom(rows, 1, {})

(***************************************************************************)
(* 02_parse_table.py: the same line parser with its own company guess, and *)
(* the rescan of the whole file when the sections gave nothing.            *)
(***************************************************************************)
\* str.capitalize() on the sample vocabulary
Capitalize(s) ==
    CASE s = "acme" -> "Acme"
      [] s = "beta" -> "Beta"
      [] s = "eps" -> "Eps"
      [] OTHER -> s

\* guess_company_from_url, for a URL urlparse accepts
guess_company_from_url(url) ==
    LET u == urlparse(url)
        host == StripWww(u.host)
    IN  IF HostContains(host, "lever", "co") /\ u.parts # <<>> THEN Capitalize(u.parts[1])
        ELSE IF HostContains(host, "greenhouse", "io") /\ u.parts # <<>>
        THEN Capitalize(u.parts[1])
        ELSE IF HostContains(host, "recruitee", "com") THEN Capitalize(host[1])
        ELSE Netloc(url)

\* lines 134-145: role and location from the text left around the links,
\* split at the last separator when the right part names a place
RoleLocation(line) ==
    IF line = LineA THEN [role |-> "SWE Intern", location |-> "Remote"]
    ELSE IF line = LineCdn THEN [role |-> "Data Intern", location |-> "Austin, TX"]
    ELSE [role |-> "", location |-> ""]

\* lines 110-149: the row of one text line, as ParseLine but for the guess
ParseLineTable(line) ==
    LET links == line.links
        ats == {k \in 1..Len(links) : HasAtsDomain(Lower(links[k].url))}
        app_url == IF ats = {} THEN "" ELSE Strip(links[Max(ats)].url)
        named == {k \in 1..Len(links) :
                    links[k].text # "" /\ ~IsGenericText(links[k].text)}
    IN  IF links = <<>> \/ app_url = "" \/ HasTopList(app_url)
        THEN [raises |-> FALSE, rows |-> <<>>]
        ELSE IF named # {}
        THEN [raises |-> FALSE,
              rows |-> <<[company |-> Strip(links[Min(named)].text),
                          role |-> RoleLocation(line).role,
                          location |-> RoleLocation(line).location, url |-> app_url]>>]
        ELSE IF urlparse(app_url).raises
        THEN [raises |-> TRUE, rows |-> <<>>]
        ELSE [raises |-> FALSE,
              rows |-> <<[company |-> guess_company_from_url(app_url),
                          role |-> RoleLocation(line).role,
                          location |-> RoleLocation(line).location, url |-> app_url]>>]

RECURSIVE ParseTableFrom(_, _, _)
ParseTableFrom(md, i, in_section) ==
    IF i > Len(md) THEN [raises |-> FALSE, rows |-> <<>>]
    ELSE IF md[i].heading THEN ParseTableFrom(md, i + 1, md[i].roles)
    ELSE IF ~in_section THEN ParseTableFrom(md, i + 1, in_section)
    ELSE LET here == ParseLineTable(md[i])
             rest == ParseTableFrom(md, i + 1, in_section)
         IN  [raises |-> here.raises \/ rest.raises, rows |-> here.rows \o rest.rows]

parse_jobs_from_md(md) == ParseTableFrom(md, 1, FALSE)

\* lines 167-189: every line of the file, headings included, section state
\* ignored; link and company extraction as in parse_jobs_from_md
RECURSIVE RescanFrom(_, _)
RescanFrom(md, i) ==
    IF i > Len(md) THEN [raises |-> FALSE, rows |-> <<>>]
    ELSE LET here == ParseLineTable(md[i])
             rest == RescanFrom(md, i + 1)
         IN  [raises |-> here.raises \/ rest.raises, rows |-> here.rows \o rest.rows]

\* lines 190-192: the rescan's rows carry "role": "" and "location": ""
NoRoleLocation(rows) ==
    [k \in 1..Len(rows) |-> [rows[k] EXCEPT !.role = "", !.location = ""]]

\* the rescan with the role and location of the line parser left in its rows
fallback_rescan_keep_role(md) == RescanFrom(md, 1)

fallback_rescan(md) ==
    [raises |-> RescanFrom(md, 1).raises, rows |-> NoRoleLocation(RescanFrom(md, 1).rows)]

(***************************************************************************)
(* Fetching.  A response is a status and, for 200, the document.           *)
(***************************************************************************)
BRANCHES == <<"dev", "main", "master">>

Responses(docs) ==
    {[status |-> st, body |-> <<>>] : st \in {"404", "500", "timeout"}}
        \cup {[status |-> "200", body |-> d] : d \in docs}

\* watch_core._fetch_readme: the first branch that is not 404 decides
RECURSIVE FetchReadmeFrom(_, _)
FetchReadmeFrom(resp, i) ==
    IF i > Len(BRANCHES) THEN [raises |-> FALSE, text |-> <<>>]
    ELSE LET r == resp[BRANCHES[i]]
         IN  IF r.status = "404" THEN FetchReadmeFrom(resp, i + 1)
             ELSE IF r.status = "200" THEN [raises |-> FALSE, text |-> r.body]
             ELSE [raises |-> TRUE, text |-> <<>>]

fetch_readme(resp) == FetchReadmeFrom(resp, 1)

\* 03_watch_once main: every branch is fetched, each non-404 document parsed
RECURSIVE FetchAllFrom(_, _)
FetchAllFrom(resp, i) ==
    IF i > Len(BRANCHES) THEN [raises |-> FALSE, rows |-> <<>>]
    ELSE LET r == resp[BRANCHES[i]]
             rest == FetchAllFrom(resp, i + 1)
         IN  IF r.status = "404" THEN rest
             ELSE IF r.status # "200" THEN [raises |-> TRUE, rows |-> <<>>]
             ELSE LET here == parse_jobs(r.body)
                  IN  IF here.raises THEN here
                      ELSE [raises |-> rest.raises, rows |-> here.rows \o rest.rows]

\* watch_core._extract_links: the set of link URLs of the whole text, stripped
extract_links(md) ==
    UNION {{Strip(md[i].links[j].url) : j \in 1..Len(md[i].links)} : i \in 1..Len(md)}

\* watch_core._is_app_url
is_app_url(url) == ~HasTopList(Lower(url)) /\ HasAtsDomain(Lower(url))

\* the orders in which a set may be iterated
Perms(S) == {f \in [1..Cardinality(S) -> S] : \A i, j \in 1..Cardinality(S) : f[i] = f[j] => i = j}

(***************************************************************************)
(* Filters (filters.json) and the two filter evaluators.                   *)
(***************************************************************************)
FNone ==
    [include_keywords |-> {}, exclude_keywords |-> {}, company_allowlist |-> {},
     company_blocklist |-> {}, locations_any |-> {}, priority_companies |-> {},
     priority_keywords |-> {}]

FStrict ==
    [FNone EXCEPT !.include_keywords = {"intern"}, !.company_blocklist = {"Beta"},
                  !.priority_keywords = {"swe"}]

FilterConfigs == {FNone, FStrict}

\* k in s for two strings of the sample vocabulary
IsSubstring(k, s) == k = s \/ <<k, s>> \in {<<"intern", "swe intern">>, <<"swe", "swe intern">>}

\* k in " ".join(fields)
InText(k, fields) == \E f \in fields : IsSubstring(k, f)

\* watch_core._passes_filters
passes_filters_core(company, det, Fl) ==
    LET text == {Lower(company), Lower(det.title), Lower(det.location)}
    IN  /\ ~(Fl.company_blocklist # {} /\ Lower(company) \in {Lower(c) : c \in Fl.company_blocklist})
        /\ ~(Fl.company_allowlist # {} /\ Lower(company) \notin {Lower(c) : c \in Fl.company_allowlist})
        /\ ~(Fl.exclude_keywords # {} /\ \E k \in Fl.exclude_keywords : InText(Lower(k), text))
        /\ ~(Fl.include_keywords # {} /\ ~\E k \in Fl.include_keywords : InText(Lower(k), text))
        /\ ~(Fl.locations_any # {}
               /\ ~\E k \in Fl.locations_any : IsSubstring(Lower(k), Lower(det.location)))

\* watch_core._is_priority
is_priority_core(company, det, Fl) ==
    LET t == {Lower(company), Lower(det.title)}
    IN  \/ Fl.priority_companies # {} /\ Lower(company) \in {Lower(c) : c \in Fl.priority_companies}
        \/ Fl.priority_keywords # {} /\ \E k \in Fl.priority_keywords : InText(Lower(k), t)

\* 03_watch_once.passes_filters (the location list is not consulted)
passes_filters_once(r, det, Fl) ==
    LET t == {Lower(r.company), Lower(det.title), Lower(det.location)}
    IN  /\ ~(Fl.company_blocklist # {} /\ Lower(r.company) \in {Lower(c) : c \in Fl.company_blocklist})
        /\ ~(\E k \in Fl.exclude_keywords : InText(Lower(k), t))
        /\ ~(Fl.company_allowlist # {} /\ Lower(r.company) \notin {Lower(c) : c \in Fl.company_allowlist})
        /\ ~(Fl.include_keywords # {} /\ ~\E k \in Fl.include_keywords : InText(Lower(k), t))

\* 03_watch_once.is_priority
is_priority_once(r, det, Fl) ==
    LET t == {Lower(r.company), Lower(det.title), Lower(det.location)}
    IN  \/ r.company \in Fl.priority_companies
        \/ \E k \in Fl.priority_keywords : InText(Lower(k), t)

(***************************************************************************)
(* The stores of seen.db: the seen ledger and the details cache, each a    *)
(* set of rows, and the database write lock.                               *)
(***************************************************************************)
\* hashlib.sha1 is taken to be injective: a digest is named by its input
\* 03_watch_once.row_id
row_id(r) == <<Strip(r.company), "|", Strip(r.url)>>

\* watch_core.run_scan: rid = _sha1(url)
core_id(url) == <<url>>

SeenRow(i, c, u) == [id |-> i, company |-> c, url |-> u]

\* InsertConflicts for a table without constraints: no insert is ever rejected
InsertNeverConflicts(rows, row, uniqueUrl) == FALSE

\* does INSERT INTO seen raise IntegrityError: the primary key, and the UNIQUE
\* url column when watch_core._ensure_db created the table
InsertConflicts(rows, row, uniqueUrl) ==
    \/ \E x \in rows : x.id = row.id
    \/ uniqueUrl /\ \E x \in rows : x.url = row.url

\* details_cache.get: the row of the url, if any, as {title, location, provider}
\* Python's None, and x or ""
NoneVal == "<None>"

OrEmpty(x) == IF x \in {NoneVal, ""} THEN "" ELSE x

cache_get(table, url) ==
    {[title |-> OrEmpty(x.title), location |-> OrEmpty(x.location), provider |-> OrEmpty(x.provider)] :
        x \in {y \in table : y.url = url}}

\* cache_upsert as a plain INSERT into a table without key: the old row stays
cache_insert_keep(table, url, title, location, provider, now) ==
    table \cup {[url |-> url, title |-> OrEmpty(title), location |-> OrEmpty(location),
                 provider |-> OrEmpty(provider), updated_at |-> now]}

\* details_cache.put: INSERT OR REPLACE on the primary key url
cache_upsert(table, url, title, location, provider, now) ==
    {y \in table : y.url # url}
        \cup {[url |-> url, title |-> OrEmpty(title), location |-> OrEmpty(location),
               provider |-> OrEmpty(provider), updated_at |-> now]}

(***************************************************************************)
(* The feed (feed.json).                                                   *)
(***************************************************************************)
FeedCap == 500

\* _append_feed cutting the list at its head: feed[:500]
append_feed_keep_oldest(feed, items) ==
    LET all == feed \o items
    IN  IF Len(all) > FeedCap THEN SubSeq(all, 1, FeedCap) ELSE all

\* watch_core._append_feed
append_feed(feed, items) ==
    LET all == feed \o items
    IN  IF Len(all) > FeedCap THEN SubSeq(all, Len(all) - FeedCap + 1, Len(all)) ELSE all

(***************************************************************************)
(* State.                                                                  *)
(***************************************************************************)
VARIABLES
    env,         \* the installation: entry point scheduled, configurations in use
    run,         \* per scan: the local variables of the entry point
    hist,        \* per scan: what it did (inserted, rejected, notified, ...)
    seen,        \* committed rows of table seen
    txn,         \* per scan: rows inserted and not yet committed
    lock,        \* the scan holding the database write lock, 0 if none
    schema,      \* who created table seen: "none", "once", "core"
    details,     \* rows of table details (the cache)
    clock,       \* datetime('now') as a logical clock
    feed,        \* the items of feed.json
    call,        \* a single call of a pure function: its input and outcome
    pool         \* 04_enrich_via_adapters_fast.py: to_fetch and its tasks

vars == <<env, run, hist, seen, txn, lock, schema, details, clock, feed, call, pool>>

Runs == 1..MaxRuns

Source1 == [label |-> "S1", repo |-> "owner/one"]

Source2 == [label |-> "S2", repo |-> "owner/two"]

SourceConfigs == {<<Source1>>, <<Source1, Source2>>}

\* what the OpenGraph scrape of watch_core._details_for may come back with
ScrapeResults ==
    {[title |-> "", location |-> "", site |-> ""],
     [title |-> ApiTitle, location |-> ApiLocation, site |-> ""]}

\* the network answers a scan's enrichment may meet
ScanNets == {[api |-> "unreachable", html |-> "unreachable"], [api |-> "good", html |-> "good"]}

RespMaps(docs) == [{BRANCHES[b] : b \in 1..Len(BRANCHES)} -> Responses(docs)]

\* what _fetch_readme can return or raise, over all answers of the three branches
CoreFetchOutcomes == {fetch_readme(resp) : resp \in RespMaps(SourceDocs)}

\* what the fetch-and-parse loop of 03_watch_once can produce
OnceFetchOutcomes == {FetchAllFrom(resp, 1) : resp \in RespMaps(Docs)}

LocalsAt(p) ==
    [pc |-> p, entry |-> "core", seed |-> FALSE, notify_when_zero |-> FALSE,
     F |-> FNone, sources |-> <<>>, src |-> 1, candidates |-> <<>>, i |-> 1,
     new_items |-> <<>>, kept |-> 0, enriched_items |-> <<>>]

NoHist ==
    [entry |-> "", seed |-> FALSE, candidates |-> <<>>, inserted |-> {}, rejected |-> {},
     news |-> {}, dropped |-> {}, enriched |-> {}, notes |-> <<>>, fed |-> <<>>,
     cause |-> "", fetched |-> {}, nwz |-> FALSE]

NoCall == [fn |-> "", url |-> "", net |-> [api |-> "good", html |-> "good"], phase |-> "idle",
           out |-> {}, puts |-> <<>>]

NoPool == [rows |-> <<>>, to_fetch |-> <<>>, task |-> <<>>, puts |-> {}, phase |-> "idle"]

\* an installation that runs no scans
NoEnv == [entry |-> "", concurrent |-> FALSE, seeds |-> {}, filters |-> {}, sources |-> {},
          zero |-> {}]

RunsIdle ==
    /\ run = [r \in Runs |-> LocalsAt("idle")]
    /\ hist = [r \in Runs |-> NoHist]
    /\ seen = {}
    /\ txn = [r \in Runs |-> {}]
    /\ lock = 0
    /\ schema = "none"
    /\ clock = 0
    /\ feed = <<>>

IdleInit ==
    /\ RunsIdle
    /\ details = {}

ScanInit ==
    /\ IdleInit
    /\ call = NoCall
    /\ pool = NoPool

\* scans are started one after the other by one entry point
Init ==
    /\ \E e \in {"once", "core"} :
          env = [entry |-> e, concurrent |-> FALSE, seeds |-> BOOLEAN, filters |-> FilterConfigs,
                 sources |-> IF e = "core" THEN SourceConfigs ELSE {<<Source1>>},
                 zero |-> IF e = "core" THEN BOOLEAN ELSE {FALSE}]
    /\ ScanInit

Running(r) == run[r].pc \notin {"idle", "done", "aborted"}

\* a notification event: the item notification of a candidate or the
\* "caught up" message, on the desktop or the phone channel
Note(kind, chan, cand, prio) == [kind |-> kind, chan |-> chan, cand |-> cand, priority |-> prio]

NoCand == [label |-> "", company |-> "", url |-> ""]

Cand(l, c, u) == [label |-> l, company |-> c, url |-> u]

(***************************************************************************)
(* A scan starts: the flags, filters.json and sources.json are read.       *)
(* 03_watch_once calls init_db() first.                                    *)
(***************************************************************************)
\* the entry points an installation runs: one of the two scripts, or both
\* of them on the same seen.db
EntryPoints(x) == IF x = "both" THEN {"once", "core"} ELSE {x}

StartScan(r) ==
    /\ run[r].pc = "idle"
    /\ \A q \in Runs : q < r => run[q].pc # "idle"
    /\ env.concurrent \/ \A q \in Runs : ~Running(q)
    /\ \E e \in EntryPoints(env.entry), sd \in env.seeds, z \in env.zero,
          Fl \in env.filters, srcs \in env.sources :
          /\ run' = [run EXCEPT ![r] = [LocalsAt("fetch") EXCEPT !.entry = e,
                                        !.seed = sd, !.notify_when_zero = z, !.F = Fl,
                                        !.sources = srcs]]
          /\ hist' = [hist EXCEPT ![r].entry = e, ![r].seed = sd, ![r].nwz = z]
          /\ schema' = IF e = "once" /\ schema = "none" THEN "once" ELSE schema
    /\ UNCHANGED <<env, seen, txn, lock, details, clock, feed, call, pool>>

(***************************************************************************)
(* watch_core.run_scan, lines 275-282: one source is fetched and its links *)
(* become candidates; after the last source _ensure_db() opens the ledger. *)
(* An exception of _fetch_readme is not caught: it ends run_scan.          *)
(***************************************************************************)
FetchSource(r) ==
    /\ run[r].pc = "fetch"
    /\ run[r].entry = "core"
    /\ LET s == run[r].sources[run[r].src]
           last == run[r].src = Len(run[r].sources)
       IN  \E got \in CoreFetchOutcomes :
             IF got.raises
             THEN /\ run' = [run EXCEPT ![r] = LocalsAt("aborted")]
                  /\ hist' = [hist EXCEPT ![r].cause = "fetch"]
                  /\ UNCHANGED schema
             ELSE \E order \in Perms({u \in extract_links(got.text) : is_app_url(u)}) :
                  LET more == [k \in 1..Len(order) |-> Cand(s.label, "", order[k])]
                  IN  /\ run' = [run EXCEPT
                            ![r].candidates = @ \o more,
                            ![r].src = @ + 1,
                            ![r].pc = IF last THEN "diff" ELSE "fetch"]
                      /\ hist' = [hist EXCEPT ![r].fetched = @ \cup {s.label},
                                              ![r].candidates = @ \o more]
                      /\ schema' = IF last /\ schema = "none" THEN "core" ELSE schema
    /\ UNCHANGED <<env, seen, txn, lock, details, clock, feed, call, pool>>

(***************************************************************************)
(* 03_watch_once main, lines 220-233: fetch every branch, parse, de-dupe.  *)
(***************************************************************************)
FetchParse(r) ==
    /\ run[r].pc = "fetch"
    /\ run[r].entry = "once"
    /\ \E got \in OnceFetchOutcomes :
          LET uniq == Dedupe(got.rows)
              cs == [k \in 1..Len(uniq) |-> Cand("", uniq[k].company, uniq[k].url)]
          IN  IF got.raises
              THEN /\ run' = [run EXCEPT ![r] = LocalsAt("aborted")]
                   /\ hist' = [hist EXCEPT ![r].cause = "fetch"]
              ELSE /\ run' = [run EXCEPT ![r].candidates = cs, ![r].pc = "diff"]
                   /\ hist' = [hist EXCEPT ![r].candidates = cs]
    /\ UNCHANGED <<env, seen, txn, lock, schema, details, clock, feed, call, pool>>

(***************************************************************************)
(* The insert loop (03_watch_once 239-249, watch_core 286-299), one        *)
(* candidate per step.  INSERT takes the write lock and keeps it until the *)
(* connection commits: run_scan commits after each successful insert,      *)
(* 03_watch_once once after the loop.                                      *)
(***************************************************************************)
\* collect_new without the seed test
collect_new_unseeded(new_items, is_seed, c) == Append(new_items, c)

\* "if not seed: new_items.append(...)" after a successful INSERT
collect_new(new_items, is_seed, c) == IF is_seed THEN new_items ELSE Append(new_items, c)

\* Commit as a rollback: the pending rows are dropped
CommitNothing(rows, pending) == rows

\* conn.commit(): the pending rows of the connection become visible
Commit(rows, pending) == rows \cup pending

\* after_integrity_error without the except clause: the exception ends the scan
after_integrity_error_abort(l) == LocalsAt("aborted")

\* "except sqlite3.IntegrityError: pass": the loop goes on to the next candidate
after_integrity_error(l) == [l EXCEPT !.i = @ + 1]

LedgerRow(entry, c) ==
    IF entry = "once" THEN SeenRow(row_id(c), c.company, c.url)
    ELSE SeenRow(core_id(c.url), c.company, c.url)

Insert(r) ==
    /\ run[r].pc = "diff"
    /\ run[r].i <= Len(run[r].candidates)
    /\ lock \in {0, r}
    /\ LET c == run[r].candidates[run[r].i]
           row == LedgerRow(run[r].entry, c)
       IN  IF InsertConflicts(seen \cup txn[r], row, schema = "core")
           THEN \* sqlite3.IntegrityError: pass; the transaction stays open
                /\ lock' = r
                /\ hist' = [hist EXCEPT ![r].rejected = @ \cup {c}]
                /\ run' = [run EXCEPT ![r] = after_integrity_error(@)]
                /\ UNCHANGED <<seen, txn>>
           ELSE /\ IF run[r].entry = "core"
                   THEN /\ seen' = Commit(seen, txn[r] \cup {row})
                        /\ txn' = [txn EXCEPT ![r] = {}]
                        /\ lock' = 0
                   ELSE /\ txn' = [txn EXCEPT ![r] = @ \cup {row}]
                        /\ lock' = r
                        /\ UNCHANGED seen
                /\ hist' = [hist EXCEPT
                      ![r].inserted = @ \cup {c},
                      ![r].news = @ \cup Range(collect_new(<<>>, run[r].seed, c))]
                /\ run' = [run EXCEPT ![r].i = @ + 1,
                                      ![r].new_items = collect_new(@, run[r].seed, c)]
    /\ UNCHANGED <<env, schema, details, clock, feed, call, pool>>

\* conn.commit(); conn.close() after the loop; a seed run of 03_watch_once exits here
EndDiff(r) ==
    /\ run[r].pc = "diff"
    /\ run[r].i > Len(run[r].candidates)
    /\ seen' = Commit(seen, txn[r])
    /\ txn' = [txn EXCEPT ![r] = {}]
    /\ lock' = IF lock = r THEN 0 ELSE lock
    /\ run' = IF run[r].entry = "once" /\ run[r].seed
              THEN [run EXCEPT ![r] = LocalsAt("done")]
              ELSE [run EXCEPT ![r].i = 1, ![r].pc = "enrich"]
    /\ UNCHANGED <<env, hist, schema, details, clock, feed, call, pool>>

(***************************************************************************)
(* Enrich, filter, notify: one new item per step.                          *)
(***************************************************************************)
ItemNotes(it, prio) == <<Note("item", "mac", it, 0), Note("item", "phone", it, prio)>>

\* watch_core.run_scan 307-337.  _details_for imports adapters.details_for,
\* which adapters.py does not define: the ImportError is caught and the page
\* is scraped directly, without the cache.
ProcessItemCore(r) ==
    /\ run[r].pc = "enrich"
    /\ run[r].entry = "core"
    /\ run[r].i <= Len(run[r].new_items)
    /\ \E det \in ScrapeResults :
          LET it == run[r].new_items[run[r].i]
              title == IF det.title # "" THEN det.title ELSE "New internship"
              urgent == is_priority_core(it.company, det, run[r].F)
              item == [ts |-> r, label |-> it.label, company |-> it.company, title |-> title,
                       location |-> det.location, url |-> it.url, urgent |-> urgent]
          IN  IF ~passes_filters_core(it.company, det, run[r].F)
              THEN /\ run' = [run EXCEPT ![r].i = @ + 1]
                   /\ hist' = [hist EXCEPT ![r].dropped = @ \cup {it},
                                           ![r].enriched = @ \cup {it}]
              ELSE /\ run' = [run EXCEPT ![r].i = @ + 1, ![r].kept = @ + 1,
                                         ![r].enriched_items = Append(@, item)]
                   /\ hist' = [hist EXCEPT ![r].enriched = @ \cup {it},
                                           ![r].notes = @ \o ItemNotes(it, IF urgent THEN 5 ELSE 3)]
    /\ UNCHANGED <<env, seen, txn, lock, schema, details, clock, feed, call, pool>>

\* 03_watch_once 259-276 with details_for (154-162): cache, else enrich and put
FilterNotifyOnce(r, it, det) ==
    IF ~passes_filters_once(it, det, run[r].F)
    THEN /\ run' = [run EXCEPT ![r].i = @ + 1]
         /\ hist' = [hist EXCEPT ![r].dropped = @ \cup {it}, ![r].enriched = @ \cup {it}]
    ELSE /\ run' = [run EXCEPT ![r].i = @ + 1, ![r].kept = @ + 1]
         /\ hist' = [hist EXCEPT
               ![r].enriched = @ \cup {it},
               ![r].notes = @ \o ItemNotes(it, IF is_priority_once(it, det, run[r].F) THEN 5 ELSE 3)]

ProcessItemOnce(r) ==
    /\ run[r].pc = "enrich"
    /\ run[r].entry = "once"
    /\ run[r].i <= Len(run[r].new_items)
    /\ LET it == run[r].new_items[run[r].i]
           cached == cache_get(details, it.url)
       IN  IF cached # {}
           THEN /\ FilterNotifyOnce(r, it, CHOOSE d \in cached : TRUE)
                /\ UNCHANGED <<details, clock>>
           ELSE \E net \in ScanNets :
                  LET d == enrich_from_url(it.url, net)
                  IN  IF d.raised
                      THEN /\ run' = [run EXCEPT ![r] = LocalsAt("aborted")]
                           /\ hist' = [hist EXCEPT ![r].cause = "enrich"]
                           /\ UNCHANGED <<details, clock>>
                      ELSE /\ lock = 0
                           /\ details' = cache_upsert(details, it.url, d.title, d.location,
                                                      ProviderOf(it.url), clock + 1)
                           /\ clock' = clock + 1
                           /\ FilterNotifyOnce(r, it, d)
    /\ UNCHANGED <<env, seen, txn, lock, schema, feed, call, pool>>

(***************************************************************************)
(* The end of a scan: watch_core 339-355 appends the feed and may send the *)
(* "caught up" message; 03_watch_once prints its summary.                  *)
(***************************************************************************)
CaughtUpNotes == <<Note("caught_up", "mac", NoCand, 0), Note("caught_up", "phone", NoCand, 2)>>

Finish(r) ==
    /\ run[r].pc = "enrich"
    /\ run[r].i > Len(run[r].new_items)
    /\ run' = [run EXCEPT ![r] = LocalsAt("done")]
    /\ IF run[r].entry = "core"
       THEN /\ feed' = IF run[r].enriched_items # <<>>
                       THEN append_feed(feed, run[r].enriched_items) ELSE feed
            /\ hist' = [hist EXCEPT
                  ![r].fed = @ \o run[r].enriched_items,
                  ![r].notes = IF ~run[r].seed /\ run[r].kept = 0 /\ run[r].notify_when_zero
                               THEN @ \o CaughtUpNotes ELSE @]
       ELSE UNCHANGED <<feed, hist>>
    /\ UNCHANGED <<env, seen, txn, lock, schema, details, clock, call, pool>>

ScanNext ==
    \E r \in Runs :
        \/ StartScan(r)
        \/ FetchSource(r)
        \/ FetchParse(r)
        \/ Insert(r)
        \/ EndDiff(r)
        \/ ProcessItemCore(r)
        \/ ProcessItemOnce(r)
        \/ Finish(r)

Next == ScanNext

Spec == Init /\ [][Next]_vars

(***************************************************************************)
(* Two scans of one entry point on the same ledger at the same time, as a  *)
(* scheduled run and the /run-now route of ui_app do.  A scan that needs   *)
(* the write lock waits for it (sqlite's busy handler).                    *)
(***************************************************************************)
InitConc ==
    /\ \E e \in {"once", "core"} :
          env = [entry |-> e, concurrent |-> TRUE, seeds |-> {FALSE}, filters |-> {FNone},
                 sources |-> {<<Source1>>}, zero |-> {TRUE}]
    /\ ScanInit

SpecConc == InitConc /\ [][ScanNext]_vars

\* non-seed scans with the empty filter configuration, one after the other
InitRetry ==
    /\ \E e \in {"once", "core"} :
          env = [entry |-> e, concurrent |-> FALSE, seeds |-> {FALSE}, filters |-> {FNone},
                 sources |-> IF e = "core" THEN SourceConfigs ELSE {<<Source1>>},
                 zero |-> {FALSE}]
    /\ ScanInit

SpecRetry == InitRetry /\ [][ScanNext]_vars

\* both entry points scheduled on one seen.db, each scan run by either
InitMixed ==
    /\ env = [entry |-> "both", concurrent |-> FALSE, seeds |-> {FALSE}, filters |-> {FNone},
              sources |-> {<<Source1>>}, zero |-> {FALSE}]
    /\ ScanInit

SpecMixed == InitMixed /\ [][ScanNext]_vars

(***************************************************************************)
(* adapters.enrich_from_url called once, on any URL and any network.       *)
(***************************************************************************)
InitEnrich ==
    /\ env = NoEnv
    /\ IdleInit
    /\ pool = NoPool
    /\ \/ \E u \in EnrichUrls, n \in Nets :
             call = [NoCall EXCEPT !.fn = "enrich_from_url", !.url = u, !.net = n,
                                   !.phase = "called"]
       \/ \E u \in EnrichUrls :
             call = [NoCall EXCEPT !.fn = "detect", !.url = u, !.phase = "called"]

CallEnrich ==
    /\ call.fn = "enrich_from_url"
    /\ call.phase = "called"
    /\ call' = [call EXCEPT !.phase = "returned",
                            !.out = {enrich_from_url(call.url, call.net)}]
    /\ UNCHANGED <<env, run, hist, seen, txn, lock, schema, details, clock, feed, pool>>

\* detect(url): urlparse raising ValueError propagates to the caller
CallDetect ==
    /\ call.fn = "detect"
    /\ call.phase = "called"
    /\ call' = [call EXCEPT !.phase = "returned",
                            !.out = {IF urlparse(call.url).raises
                                     THEN [raised |-> TRUE, info |-> [provider |-> "generic"]]
                                     ELSE [raised |-> FALSE, info |-> detect(call.url)]}]
    /\ UNCHANGED <<env, run, hist, seen, txn, lock, schema, details, clock, feed, pool>>

NextEnrich == CallEnrich \/ CallDetect

SpecEnrich == InitEnrich /\ [][NextEnrich]_vars

(***************************************************************************)
(* 04_enrich_via_adapters_fast.py: the rows without a cache entry are      *)
(* handed to a thread pool; a task enriches its URL and puts the result.   *)
(***************************************************************************)
MAX_WORKERS == 16

MaxRows == 2

PoolUrls == {uA, uB, uBad}

\* a cache row left by an earlier run
OldRow ==
    [url |-> uB, title |-> "Old title", location |-> "", provider |-> "greenhouse",
     updated_at |-> 0]

InitPool ==
    /\ env = NoEnv
    /\ RunsIdle
    /\ details \in {{}, {OldRow}}
    /\ call = NoCall
    /\ \E n \in 1..MaxRows : \E rows \in [1..n -> PoolUrls] :
          pool = [NoPool EXCEPT !.rows = rows]

NewTask == [pc |-> "submitted", d |-> Ret("", "")]

\* line 13 and lines 26-28: the rows get() finds nothing for are submitted
PoolSubmit ==
    /\ pool.phase = "idle"
    /\ LET tf == SelectSeq(pool.rows, LAMBDA u : cache_get(details, u) = {})
       IN  pool' = [pool EXCEPT !.to_fetch = tf,
                                !.task = [k \in 1..Len(tf) |-> NewTask],
                                !.phase = IF tf = <<>> THEN "done" ELSE "running"]
    /\ UNCHANGED <<env, run, hist, seen, txn, lock, schema, details, clock, feed, call>>

\* the tasks a worker thread is inside of
Busy == {k \in 1..Len(pool.task) : pool.task[k].pc = "enriched"}

\* task, lines 18-19: a free worker takes the task and calls enrich_from_url
TaskEnrich(k) ==
    /\ pool.phase = "running"
    /\ pool.task[k].pc = "submitted"
    /\ Cardinality(Busy) < MAX_WORKERS
    /\ \E net \in ScanNets :
          LET d == enrich_from_url(pool.to_fetch[k], net)
          IN  pool' = [pool EXCEPT !.task[k] =
                          IF d.raised THEN [pc |-> "raised", d |-> d]
                          ELSE [pc |-> "enriched", d |-> d]]
    /\ UNCHANGED <<env, run, hist, seen, txn, lock, schema, details, clock, feed, call>>

\* task, lines 20-22: detect for the provider, then cache_put
TaskPut(k) ==
    /\ pool.phase = "running"
    /\ pool.task[k].pc = "enriched"
    /\ lock = 0
    /\ LET u == pool.to_fetch[k]
           d == pool.task[k].d
       IN  /\ details' = cache_upsert(details, u, d.title, d.location, ProviderOf(u), clock + 1)
           /\ pool' = [pool EXCEPT
                 !.task[k].pc = "done",
                 !.puts = @ \cup {[task |-> k, url |-> u, title |-> d.title,
                                   location |-> d.location, provider |-> ProviderOf(u)]}]
    /\ clock' = clock + 1
    /\ UNCHANGED <<env, run, hist, seen, txn, lock, schema, feed, call>>

\* lines 29-30 and the end of the with block: the executor has shut down; an
\* exception of a task has been re-raised by fut.result()
PoolJoin ==
    /\ pool.phase = "running"
    /\ \A k \in 1..Len(pool.task) : pool.task[k].pc \in {"done", "raised"}
    /\ pool' = [pool EXCEPT !.phase =
                   IF \E k \in 1..Len(pool.task) : pool.task[k].pc = "raised"
                   THEN "raised" ELSE "done"]
    /\ UNCHANGED <<env, run, hist, seen, txn, lock, schema, details, clock, feed, call>>

NextPool ==
    \/ PoolSubmit
    \/ \E k \in 1..Len(pool.task) : TaskEnrich(k) \/ TaskPut(k)
    \/ PoolJoin

SpecPool == InitPool /\ [][NextPool]_vars

(***************************************************************************)
(* details_cache: any sequence of put and get calls.                       *)
(***************************************************************************)
CacheUrls == {uA, uB}

CacheTitles == {"", ApiTitle}

CacheLocations == {"", ApiLocation}

CacheProviders == {"lever", "generic"}

InitCache ==
    /\ env = NoEnv
    /\ IdleInit
    /\ pool = NoPool
    /\ call = [NoCall EXCEPT !.fn = "details_cache"]

CachePut ==
    /\ call.fn = "details_cache"
    /\ Len(call.puts) < MaxOps
    /\ lock = 0
    /\ \E u \in CacheUrls, t \in CacheTitles, l \in CacheLocations, p \in CacheProviders :
          /\ details' = cache_upsert(details, u, t, l, p, clock + 1)
          /\ call' = [call EXCEPT
                !.puts = Append(@, [url |-> u, title |-> t, location |-> l, provider |-> p,
                                    at |-> clock + 1]),
                !.phase = "put", !.url = u, !.out = {}]
    /\ clock' = clock + 1
    /\ UNCHANGED <<env, run, hist, seen, txn, lock, schema, feed, pool>>

CacheGet ==
    /\ call.fn = "details_cache"
    /\ \E u \in CacheUrls :
          call' = [call EXCEPT !.phase = "got", !.url = u, !.out = cache_get(details, u)]
    /\ UNCHANGED <<env, run, hist, seen, txn, lock, schema, details, clock, feed, pool>>

NextCache == CachePut \/ CacheGet

SpecCache == InitCache /\ [][NextCache]_vars

(***************************************************************************)
(* The extractors applied to one document: parse_jobs with the de-dupe of  *)
(* 03_watch_once, parse_jobs_from_md with fallback and de-dupe of          *)
(* 02_parse_table, and the link filter of run_scan.                        *)
(***************************************************************************)
MaxLines == 3

ParseLines ==
    {Heading(TRUE), Heading(FALSE), HeadingLink, LineA, LineB, LineTop, LineTopCaps,
     LineCdn, LineSite}

ParseDocs == UNION {[1..n -> ParseLines] : n \in 1..MaxLines}

InitExtract ==
    /\ env = NoEnv
    /\ IdleInit
    /\ pool = NoPool
    /\ \E d \in ParseDocs :
          call = [fn |-> "extract", md |-> d, phase |-> "called", path |-> "", mode |-> "",
                  all |-> <<>>, out |-> <<>>]

\* 03_watch_once lines 223-233 on one document
ExtractOnce ==
    /\ call.fn = "extract"
    /\ call.phase = "called"
    /\ LET got == parse_jobs(call.md)
       IN  call' = [call EXCEPT !.phase = "returned", !.path = "once", !.mode = "sections",
                                !.all = got.rows, !.out = Dedupe(got.rows)]
    /\ UNCHANGED <<env, run, hist, seen, txn, lock, schema, details, clock, feed, pool>>

\* 02_parse_table lines 155-201 on one document
ExtractTable ==
    /\ call.fn = "extract"
    /\ call.phase = "called"
    /\ LET got == parse_jobs_from_md(call.md)
           again == fallback_rescan(call.md)
       IN  IF got.rows # <<>>
           THEN call' = [call EXCEPT !.phase = "returned", !.path = "table",
                                     !.mode = "sections",
                                     !.all = got.rows, !.out = Dedupe(got.rows)]
           ELSE call' = [call EXCEPT !.phase = "returned", !.path = "table",
                                     !.mode = "fallback",
                                     !.all = again.rows, !.out = Dedupe(again.rows)]
    /\ UNCHANGED <<env, run, hist, seen, txn, lock, schema, details, clock, feed, pool>>

\* watch_core.run_scan lines 278-280 on one document
ExtractCore ==
    /\ call.fn = "extract"
    /\ call.phase = "called"
    /\ \E order \in Perms({u \in extract_links(call.md) : is_app_url(u)}) :
          LET cs == [k \in 1..Len(order) |-> [company |-> "", url |-> order[k]]]
          IN  call' = [call EXCEPT !.phase = "returned", !.path = "core",
                                   !.mode = "sections", !.all = cs, !.out = cs]
    /\ UNCHANGED <<env, run, hist, seen, txn, lock, schema, details, clock, feed, pool>>

NextExtract == ExtractOnce \/ ExtractTable \/ ExtractCore

SpecExtract == InitExtract /\ [][NextExtract]_vars

(***************************************************************************)
(* The branch fallback of one source, request by request: watch_core's     *)
(* _fetch_readme, and the fetch loops of 03_watch_once and 02_parse_table. *)
(***************************************************************************)
FetchEntries == {"core", "once", "table"}

InitFetch ==
    /\ env = NoEnv
    /\ IdleInit
    /\ pool = NoPool
    /\ \E e \in FetchEntries, resp \in RespMaps(Docs) :
          call = [fn |-> "fetch", entry |-> e, resp |-> resp, phase |-> "fetching", i |-> 1,
                  requested |-> <<>>, used |-> <<>>, rows |-> <<>>, text |-> <<>>]

\* one iteration of "for br in BRANCHES" in _fetch_readme
RequestCore ==
    /\ call.fn = "fetch" /\ call.entry = "core" /\ call.phase = "fetching"
    /\ LET br == BRANCHES[call.i]
           r == call.resp[br]
           asked == [call EXCEPT !.requested = Append(@, br)]
       IN  call' = IF r.status = "404"
                   THEN [asked EXCEPT !.i = @ + 1,
                                      !.phase = IF call.i = Len(BRANCHES)
                                                THEN "returned" ELSE "fetching"]
                   ELSE IF r.status = "200"
                   THEN [asked EXCEPT !.phase = "returned", !.used = Append(@, br),
                                      !.text = r.body]
                   ELSE [asked EXCEPT !.phase = "raised"]
    /\ UNCHANGED <<env, run, hist, seen, txn, lock, schema, details, clock, feed, pool>>

\* one iteration of "for br in BRANCH_CANDIDATES" in 03_watch_once
RequestOnce ==
    /\ call.fn = "fetch" /\ call.entry = "once" /\ call.phase = "fetching"
    /\ LET br == BRANCHES[call.i]
           r == call.resp[br]
           asked == [call EXCEPT !.requested = Append(@, br)]
           next == [asked EXCEPT !.i = @ + 1,
                                 !.phase = IF call.i = Len(BRANCHES)
                                           THEN "returned" ELSE "fetching"]
       IN  call' = IF r.status = "404" THEN next
                   ELSE IF r.status # "200" THEN [asked EXCEPT !.phase = "raised"]
                   ELSE LET here == parse_jobs(r.body)
                        IN  IF here.raises THEN [asked EXCEPT !.phase = "raised"]
                            ELSE [next EXCEPT !.used = Append(@, br),
                                              !.rows = @ \o here.rows]
    /\ UNCHANGED <<env, run, hist, seen, txn, lock, schema, details, clock, feed, pool>>

\* one iteration of "for br in BRANCH_CANDIDATES" in 02_parse_table
RequestTable ==
    /\ call.fn = "fetch" /\ call.entry = "table" /\ call.phase = "fetching"
    /\ LET br == BRANCHES[call.i]
           r == call.resp[br]
           asked == [call EXCEPT !.requested = Append(@, br)]
           next == [asked EXCEPT !.i = @ + 1,
                                 !.phase = IF call.i = Len(BRANCHES)
                                           THEN "returned" ELSE "fetching"]
       IN  call' = IF r.status = "404" THEN next
                   ELSE IF r.status # "200" THEN [asked EXCEPT !.phase = "raised"]
                   ELSE LET here == parse_jobs_from_md(r.body)
                        IN  IF here.raises THEN [asked EXCEPT !.phase = "raised"]
                            ELSE [next EXCEPT !.used = Append(@, br),
                                              !.rows = @ \o here.rows]
    /\ UNCHANGED <<env, run, hist, seen, txn, lock, schema, details, clock, feed, pool>>

NextFetch == RequestCore \/ RequestOnce \/ RequestTable

SpecFetch == InitFetch /\ [][NextFetch]_vars

(***************************************************************************)
(* _append_feed called repeatedly on one feed.json.  Items are numbered in *)
(* the order they are appended; call.appended is everything appended.      *)
(***************************************************************************)
BatchSizes == {1, 2, 100, 250, 499, 600}

InitFeed ==
    /\ env = NoEnv
    /\ IdleInit
    /\ pool = NoPool
    /\ call = [fn |-> "append_feed", phase |-> "idle", n |-> 0, appended |-> <<>>,
               before |-> <<>>, items |-> <<>>]

AppendFeed ==
    /\ call.fn = "append_feed"
    /\ call.n < MaxOps
    /\ \E b \in BatchSizes :
          LET items == [k \in 1..b |-> Len(call.appended) + k]
          IN  /\ feed' = append_feed(feed, items)
              /\ call' = [call EXCEPT !.phase = "returned", !.n = @ + 1,
                                      !.appended = @ \o items,
                                      !.before = feed, !.items = items]
    /\ UNCHANGED <<env, run, hist, seen, txn, lock, schema, details, clock, pool>>

NextFeed == AppendFeed

SpecFeed == InitFeed /\ [][NextFeed]_vars

(***************************************************************************)
(* filters.json with some of the recognized keys left out.  _load_filters  *)
(* and load_filters return the parsed file as it is: the defaults are used *)
(* only when the file is missing or unreadable.  F["key"] on a key the     *)
(* file omits raises KeyError.                                             *)
(***************************************************************************)
FilterKeys ==
    {"include_keywords", "exclude_keywords", "company_allowlist", "company_blocklist",
     "locations_any", "priority_companies", "priority_keywords"}

\* the dictionary json.load gives, with the omitted keys read as empty lists
Filled(file) == [k \in FilterKeys |-> IF k \in file.present THEN file.vals[k] ELSE {}]

\* the keys _is_priority subscripts, in evaluation order with short circuit
KeysIsPriorityCore(company, det, Fl) ==
    {"priority_companies"} \cup
    IF Fl.priority_companies # {} /\ Lower(company) \in {Lower(c) : c \in Fl.priority_companies}
    THEN {} ELSE {"priority_keywords"}

\* the keys _passes_filters subscripts before it returns
KeysPassesCore(company, det, Fl) ==
    LET text == {Lower(company), Lower(det.title), Lower(det.location)}
    IN  {"company_blocklist"} \cup
        IF Fl.company_blocklist # {} /\ Lower(company) \in {Lower(c) : c \in Fl.company_blocklist}
        THEN {} ELSE {"company_allowlist"} \cup
        IF Fl.company_allowlist # {} /\ Lower(company) \notin {Lower(c) : c \in Fl.company_allowlist}
        THEN {} ELSE {"exclude_keywords"} \cup
        IF Fl.exclude_keywords # {} /\ \E k \in Fl.exclude_keywords : InText(Lower(k), text)
        THEN {} ELSE {"include_keywords"} \cup
        IF Fl.include_keywords # {} /\ ~\E k \in Fl.include_keywords : InText(Lower(k), text)
        THEN {} ELSE {"locations_any"}

\* the keys 03_watch_once.passes_filters subscripts before it returns
KeysPassesOnce(r, det, Fl) ==
    LET t == {Lower(r.company), Lower(det.title), Lower(det.location)}
    IN  {"company_blocklist"} \cup
        IF Fl.company_blocklist # {} /\ Lower(r.company) \in {Lower(c) : c \in Fl.company_blocklist}
        THEN {} ELSE {"exclude_keywords"} \cup
        IF \E k \in Fl.exclude_keywords : InText(Lower(k), t)
        THEN {} ELSE {"company_allowlist"} \cup
        IF Fl.company_allowlist # {} /\ Lower(r.company) \notin {Lower(c) : c \in Fl.company_allowlist}
        THEN {} ELSE {"include_keywords"}

\* the keys 03_watch_once.is_priority subscripts
KeysIsPriorityOnce(r, det, Fl) ==
    {"priority_companies"} \cup
    IF r.company \in Fl.priority_companies THEN {} ELSE {"priority_keywords"}

FStrictPrio == [FStrict EXCEPT !.priority_companies = {"Acme"}, !.locations_any = {"remote"}]

InitFilter ==
    /\ env = NoEnv
    /\ IdleInit
    /\ pool = NoPool
    /\ \E e \in {"core", "once"}, present \in SUBSET FilterKeys,
          vals \in {FStrict, FStrictPrio}, det \in ScrapeResults :
        \E company \in IF e = "core" THEN {""} ELSE {"Acme", "Beta"} :
          call = [fn |-> "filter", entry |-> e, phase |-> "called",
                  file |-> [present |-> present, vals |-> vals],
                  company |-> company, det |-> det,
                  raised |-> FALSE, passes |-> FALSE, urgent |-> FALSE]

\* run_scan lines 308-313 on one new item: _is_priority, then _passes_filters
FilterCore ==
    /\ call.fn = "filter" /\ call.entry = "core" /\ call.phase = "called"
    /\ LET Fl == Filled(call.file)
           keys == KeysIsPriorityCore(call.company, call.det, Fl)
                     \cup KeysPassesCore(call.company, call.det, Fl)
       IN  call' = IF ~(keys \subseteq call.file.present)
                   THEN [call EXCEPT !.phase = "returned", !.raised = TRUE]
                   ELSE [call EXCEPT !.phase = "returned",
                            !.urgent = is_priority_core(call.company, call.det, Fl),
                            !.passes = passes_filters_core(call.company, call.det, Fl)]
    /\ UNCHANGED <<env, run, hist, seen, txn, lock, schema, details, clock, feed, pool>>

\* 03_watch_once lines 259-264: passes_filters, then is_priority if it passed
FilterOnce ==
    /\ call.fn = "filter" /\ call.entry = "once" /\ call.phase = "called"
    /\ LET Fl == Filled(call.file)
           r == [company |-> call.company]
           passes == passes_filters_once(r, call.det, Fl)
           keys == KeysPassesOnce(r, call.det, Fl)
                     \cup IF KeysPassesOnce(r, call.det, Fl) \subseteq call.file.present
                             /\ passes
                          THEN KeysIsPriorityOnce(r, call.det, Fl) ELSE {}
       IN  call' = IF ~(keys \subseteq call.file.present)
                   THEN [call EXCEPT !.phase = "returned", !.raised = TRUE]
                   ELSE [call EXCEPT !.phase = "returned", !.passes = passes,
                            !.urgent = passes /\ is_priority_once(r, call.det, Fl)]
    /\ UNCHANGED <<env, run, hist, seen, txn, lock, schema, details, clock, feed, pool>>

NextFilter == FilterCore \/ FilterOnce

SpecFilter == InitFilter /\ [][NextFilter]_vars

(***************************************************************************)
(* cloud_watcher.main: read the existing feed from the gist or from the    *)
(* local file cloud_feed.jsonl, append the new rows, write the result.     *)
(***************************************************************************)
GistOutcomes == {"ok", "fail"}

CloudRows(tag) == {<<>>, <<tag>>}

InitCloud ==
    /\ env = NoEnv
    /\ IdleInit
    /\ pool = NoPool
    /\ \E g \in BOOLEAN, rd \in GistOutcomes, wr \in GistOutcomes,
          remote \in CloudRows("gist row"), local \in CloudRows("file row"),
          more \in {<<"new row">>, <<"new row", "new row 2">>} :
          call = [fn |-> "cloud", phase |-> "start", gist_id |-> g, read |-> rd, write |-> wr,
                  gist |-> remote, file |-> local, new_rows |-> more,
                  use_gist |-> FALSE, existing |-> <<>>, out |-> <<>>]

\* main, steps 1-4 (lines 148-171)
CloudRead ==
    /\ call.fn = "cloud" /\ call.phase = "start"
    /\ LET use == call.gist_id /\ call.read = "ok"
           existing == IF use THEN call.gist ELSE call.file
       IN  call' = [call EXCEPT !.phase = "write", !.use_gist = use, !.existing = existing,
                                !.out = existing \o call.new_rows]
    /\ UNCHANGED <<env, run, hist, seen, txn, lock, schema, details, clock, feed, pool>>

\* main, step 5 (lines 174-181): an exception of _gist_put or of
\* raise_for_status is not caught
CloudWrite ==
    /\ call.fn = "cloud" /\ call.phase = "write"
    /\ call' = IF call.use_gist
               THEN IF call.write = "ok"
                    THEN [call EXCEPT !.phase = "done", !.gist = call.out]
                    ELSE [call EXCEPT !.phase = "aborted"]
               ELSE [call EXCEPT !.phase = "done", !.file = call.out]
    /\ UNCHANGED <<env, run, hist, seen, txn, lock, schema, details, clock, feed, pool>>

NextCloud == CloudRead \/ CloudWrite

SpecCloud == InitCloud /\ [][NextCloud]_vars

(***************************************************************************)
(* 02_parse_table __main__: the section pass over the three branches, the  *)
(* whole-file rescan when it found nothing, the de-dupe.                   *)
(***************************************************************************)
TableDocs ==
    {<<Heading(TRUE), LineA>>, <<Heading(FALSE), LineA>>,
     <<LineB, Heading(TRUE), LineCdn>>, <<HeadingLink, LineSite>>}

\* lines 155-159 (rescan FALSE) and 163-193 (rescan TRUE): every branch is
\* requested, a 404 is skipped, another status raises out of fetch_raw
RECURSIVE TableAllFrom(_, _, _)
TableAllFrom(resp, i, rescan) ==
    IF i > Len(BRANCHES) THEN [raises |-> FALSE, rows |-> <<>>]
    ELSE LET r == resp[BRANCHES[i]]
             rest == TableAllFrom(resp, i + 1, rescan)
         IN  IF r.status = "404" THEN rest
             ELSE IF r.status # "200" THEN [raises |-> TRUE, rows |-> <<>>]
             ELSE LET here == IF rescan THEN fallback_rescan(r.body)
                                        ELSE parse_jobs_from_md(r.body)
                  IN  IF here.raises THEN here
                      ELSE [raises |-> rest.raises, rows |-> here.rows \o rest.rows]

InitTable ==
    /\ env = NoEnv
    /\ IdleInit
    /\ pool = NoPool
    /\ \E resp \in RespMaps(TableDocs) :
          call = [fn |-> "table_main", phase |-> "start", resp |-> resp, resp2 |-> resp,
                  section_rows |-> <<>>, all_rows |-> <<>>, rescanned |-> FALSE, out |-> <<>>]

\* lines 154-159
TableSections ==
    /\ call.fn = "table_main" /\ call.phase = "start"
    /\ LET got == TableAllFrom(call.resp, 1, FALSE)
       IN  call' = IF got.raises THEN [call EXCEPT !.phase = "raised"]
                   ELSE [call EXCEPT !.phase = "parsed", !.section_rows = got.rows,
                                     !.all_rows = got.rows]
    /\ UNCHANGED <<env, run, hist, seen, txn, lock, schema, details, clock, feed, pool>>

\* lines 162-193: "if not all_rows", each branch is requested again
TableRescan ==
    /\ call.fn = "table_main" /\ call.phase = "parsed"
    /\ call.all_rows = <<>>
    /\ \E again \in RespMaps(TableDocs) :
          LET got == TableAllFrom(again, 1, TRUE)
          IN  call' = IF got.raises
                      THEN [call EXCEPT !.phase = "raised", !.resp2 = again,
                                        !.rescanned = TRUE]
                      ELSE [call EXCEPT !.phase = "rescanned", !.resp2 = again,
                                        !.rescanned = TRUE, !.all_rows = got.rows]
    /\ UNCHANGED <<env, run, hist, seen, txn, lock, schema, details, clock, feed, pool>>

\* lines 195-201
TableDedupe ==
    /\ call.fn = "table_main"
    /\ \/ call.phase = "parsed" /\ call.all_rows # <<>>
       \/ call.phase = "rescanned"
    /\ call' = [call EXCEPT !.phase = "done", !.out = Dedupe(call.all_rows)]
    /\ UNCHANGED <<env, run, hist, seen, txn, lock, schema, details, clock, feed, pool>>

NextTable == TableSections \/ TableRescan \/ TableDedupe

SpecTable == InitTable /\ [][NextTable]_vars

(***************************************************************************)
(* Properties of the scans.                                                *)
(***************************************************************************)
\* the ledger identity scan r gives candidate c
IdOf(r, c) == LedgerRow(hist[r].entry, c).id

LedgerIds == {x.id : x \in seen}

Finished(r) == run[r].pc = "done"

\* the candidates scan r has sent an item notification for, on channel ch
Notified(r, ch) ==
    {hist[r].notes[k].cand : k \in {j \in 1..Len(hist[r].notes) :
                                      hist[r].notes[j].kind = "item" /\ hist[r].notes[j].chan = ch}}

NotesFor(r, ch, c) ==
    Cardinality({j \in 1..Len(hist[r].notes) :
                   hist[r].notes[j].kind = "item" /\ hist[r].notes[j].chan = ch
                     /\ hist[r].notes[j].cand = c})

FedFor(r, c) ==
    Cardinality({j \in 1..Len(hist[r].fed) :
                   hist[r].fed[j].url = c.url /\ hist[r].fed[j].label = c.label
                     /\ hist[r].fed[j].company = c.company})

\* C1: over any sequence of scans on one ledger, an identity enters the new
\* set of at most one scan: only a successful insert puts a candidate in the
\* new set, no identity is inserted twice (by two scans or twice by one), and
\* a candidate is turned away as already seen only when its identity was
\* inserted before.
C1_NewAtMostOnce ==
    /\ \A r1 \in Runs, r2 \in Runs :
          \A c1 \in hist[r1].inserted, c2 \in hist[r2].inserted :
              IdOf(r1, c1) = IdOf(r2, c2) => r1 = r2 /\ c1 = c2
    /\ \A r \in Runs :
          /\ hist[r].news \subseteq hist[r].inserted
          /\ hist[r].inserted \cap hist[r].rejected = {}
          /\ \A c \in hist[r].rejected :
                \E q \in Runs : q <= r /\ \E c0 \in hist[q].inserted : IdOf(q, c0) = IdOf(r, c)

\* a later scan over a grown document: it turned away what an earlier scan
\* had inserted and found something new of its own
C1_Witness ==
    \E r1 \in Runs, r2 \in Runs :
        /\ r1 < r2
        /\ Finished(r2)
        /\ hist[r2].news # {}
        /\ \E c \in hist[r1].news : c \in hist[r2].rejected

\* C2: a seed scan that has finished has every one of its candidates in the
\* ledger, has sent no notification of any kind and appended nothing to the
\* feed; no later scan has any of those candidates in its new set.
C2_SeedSilent ==
    \A r \in Runs :
        hist[r].seed =>
            /\ hist[r].notes = <<>>
            /\ hist[r].fed = <<>>
            /\ hist[r].news = {}
            /\ Finished(r) =>
                  /\ \A c \in Range(hist[r].candidates) : IdOf(r, c) \in LedgerIds
                  /\ \A r2 \in Runs : r2 > r =>
                        \A c2 \in hist[r2].news :
                            \A c \in Range(hist[r].candidates) : IdOf(r2, c2) # IdOf(r, c)

\* a seed scan recorded two fresh candidates and a later normal scan over the
\* same candidates finished
C2_Witness ==
    \E r \in Runs, r2 \in Runs :
        /\ r < r2
        /\ hist[r].seed /\ Finished(r)
        /\ Cardinality(hist[r].inserted) >= 2
        /\ ~hist[r2].seed /\ Finished(r2)
        /\ hist[r].inserted \subseteq hist[r2].rejected

\* C3 (as stated): in a non-seed scan only candidates inserted by this scan
\* and passing the filter are notified, a candidate turned away as duplicate is
\* neither enriched, notified nor fed, and when the scan has ended every
\* inserted candidate that passed the filter has exactly one notification on
\* each channel and exactly one feed item.
C3_NotifiedExactlyNewPassing ==
    \A r \in Runs :
        ~hist[r].seed =>
            /\ \A ch \in {"mac", "phone"} :
                  Notified(r, ch) \subseteq hist[r].inserted \ hist[r].dropped
            /\ \A c \in hist[r].rejected \ hist[r].inserted :
                  /\ c \notin hist[r].enriched
                  /\ \A ch \in {"mac", "phone"} : c \notin Notified(r, ch)
                  /\ FedFor(r, c) = 0
            /\ run[r].pc \in {"done", "aborted"} /\ hist[r].cause # "fetch" =>
                  \A c \in hist[r].inserted :
                      (c \in hist[r].enriched => c \notin hist[r].dropped) =>
                          /\ NotesFor(r, "mac", c) = 1
                          /\ NotesFor(r, "phone", c) = 1
                          /\ FedFor(r, c) = 1

\* C4: a candidate dropped by the filter has no notification in that scan,
\* is recorded in the ledger once the scan has committed, and no later scan
\* notifies a candidate of the same identity, whatever filters it runs with.
C4_DroppedNeverNotified ==
    \A r \in Runs :
        \A c \in hist[r].dropped :
            /\ \A ch \in {"mac", "phone"} : c \notin Notified(r, ch)
            /\ IdOf(r, c) \in LedgerIds
            /\ \A r2 \in Runs : r2 > r =>
                  \A ch \in {"mac", "phone"} :
                      \A c2 \in Notified(r2, ch) : IdOf(r2, c2) # IdOf(r, c)

\* a candidate was dropped under the strict filters and a later scan running
\* with the empty filters met it again
C4_Witness ==
    \E r \in Runs, r2 \in Runs :
        /\ r < r2
        /\ run[r2].pc = "enrich"
        /\ run[r2].F = FNone
        /\ \E c \in hist[r].dropped : c \in hist[r2].rejected

\* C6 (as stated): a failed fetch of one source never ends the scan
C6_FetchFailureIsolated ==
    \A r \in Runs :
        ~(hist[r].entry = "core" /\ run[r].pc = "aborted" /\ hist[r].cause = "fetch")

\* C7 (as stated): when a non-seed scan of either entry point has finished,
\* every candidate that was new in it has a cache entry for its URL
C7_NewItemsCached ==
    \A r \in Runs :
        Finished(r) /\ ~hist[r].seed =>
            \A c \in hist[r].news : cache_get(details, c.url) # {}

\* C8: with two scans interleaved on one ledger, no identity is in the new
\* set of both, a scan whose insert is rejected goes on (every candidate it
\* has passed in the insert loop was either inserted or rejected, and the
\* insert loop never ends a scan), and after the loop all its candidates
\* have been handled.
C8_ConcurrentAtMostOneNew ==
    /\ \A r1 \in Runs, r2 \in Runs :
          r1 # r2 =>
              {IdOf(r1, c) : c \in hist[r1].news} \cap {IdOf(r2, c) : c \in hist[r2].news} = {}
    /\ \A r \in Runs :
          /\ run[r].pc = "aborted" => hist[r].cause \in {"fetch", "enrich"}
          /\ run[r].pc = "diff" =>
                hist[r].inserted \cup hist[r].rejected
                    = {run[r].candidates[k] : k \in 1..(run[r].i - 1)}
          /\ run[r].pc = "enrich" =>
                hist[r].inserted \cup hist[r].rejected = Range(hist[r].candidates)

\* each of two interleaved scans won one candidate and lost the other
C8_Witness ==
    /\ env.concurrent
    /\ \E c1 \in hist[1].news, c2 \in hist[2].news :
          /\ c1.url # c2.url
          /\ \E x \in hist[1].rejected : x.url = c2.url
          /\ \E y \in hist[2].rejected : y.url = c1.url
    /\ run[1].pc = "enrich"
    /\ run[2].pc = "enrich"

\* the network answers in which nothing usable comes back
FailedNet(n) ==
    /\ n.api \in {"unreachable", "http_error", "non_json", "array"}
    /\ n.html \in {"unreachable", "http_error"}

\* C5 (as stated): enrich_from_url returns for every input, and returns the
\* empty title and location when the network gives nothing usable
C5_EnrichNeverRaises ==
    call.fn = "enrich_from_url" /\ call.phase = "returned" =>
        \A o \in call.out :
            /\ ~o.raised
            /\ FailedNet(call.net) => o.title = "" /\ o.location = ""

\* the rows of the cache for one URL
RowsOf(u) == {y \in details : y.url = u}

\* C9 (as stated): once the pool has shut down, the cache has exactly one row
\* for every URL of to_fetch, and it carries the values of one task's put
C9_PoolOneRowPerUrl ==
    pool.phase \in {"done", "raised"} =>
        \A u \in Range(pool.to_fetch) :
            /\ Cardinality(RowsOf(u)) = 1
            /\ \A y \in RowsOf(u) :
                  \E w \in pool.puts :
                      /\ w.url = u
                      /\ w.title = y.title
                      /\ w.location = y.location
                      /\ w.provider = y.provider

\* the puts made so far for URL u, as positions in the history
PutsFor(u) == {k \in 1..Len(call.puts) : call.puts[k].url = u}

LastPut(u) == call.puts[Max(PutsFor(u))]

\* C10: after any sequence of puts and gets the cache has at most one row per
\* URL; that row is the most recent put for the URL, written at that put's
\* time and untouched by later puts for other URLs; get returns its title,
\* location and provider, or nothing when the URL was never put.
C10_CacheLastWriteWins ==
    call.fn = "details_cache" =>
        /\ \A u \in CacheUrls :
              /\ Cardinality(RowsOf(u)) <= 1
              /\ IF PutsFor(u) = {}
                 THEN RowsOf(u) = {} /\ cache_get(details, u) = {}
                 ELSE /\ RowsOf(u) = {[url |-> u, title |-> LastPut(u).title,
                                       location |-> LastPut(u).location,
                                       provider |-> LastPut(u).provider,
                                       updated_at |-> LastPut(u).at]}
                      /\ cache_get(details, u) = {[title |-> LastPut(u).title,
                                                   location |-> LastPut(u).location,
                                                   provider |-> LastPut(u).provider]}
        /\ call.phase = "got" =>
              call.out = IF PutsFor(call.url) = {} THEN {}
                         ELSE {[title |-> LastPut(call.url).title,
                                location |-> LastPut(call.url).location,
                                provider |-> LastPut(call.url).provider]}

\* a URL was put twice with different values, another URL was put after it,
\* and a get of the first URL has returned
C10_Witness ==
    /\ call.fn = "details_cache"
    /\ call.phase = "got"
    /\ call.url = uA
    /\ Len(call.puts) = 3
    /\ call.puts[1].url = uA
    /\ call.puts[2].url = uA
    /\ call.puts[1].title # call.puts[2].title
    /\ call.puts[3].url = uB

\* C11 (as stated): the candidates a scan hands to its insert loop hold no
\* two entries with the same (company.lower().strip(), url.strip())
C11_CandidatesDeduped ==
    \A r \in Runs :
        \A i \in 1..Len(hist[r].candidates), j \in 1..Len(hist[r].candidates) :
            DedupKey(hist[r].candidates[i]) = DedupKey(hist[r].candidates[j]) => i = j

\* line i of md lies under a heading, and the nearest one above it is a role section
InSection(md, i) ==
    LET hs == {j \in 1..(i - 1) : md[j].heading}
    IN  hs # {} /\ md[Max(hs)].roles

UrlsAt(md, i) == {md[i].links[k].url : k \in 1..Len(md[i].links)}

OutUrls == {call.out[k].url : k \in 1..Len(call.out)}

\* C12 (as stated): outside the fallback rescan every extracted URL stands on
\* a text line whose nearest heading above is a role section; heading lines
\* and lines outside the sections give nothing
C12_SectionScoped ==
    call.fn = "extract" /\ call.phase = "returned" /\ call.mode = "sections" =>
        \A u \in OutUrls :
            \E i \in 1..Len(call.md) :
                ~call.md[i].heading /\ InSection(call.md, i) /\ u \in UrlsAt(call.md, i)

\* the hosts of the sample URLs that lie on an ATS domain
AtsHostNames == {"jobs.lever.co", "boards.greenhouse.io", "simplify.jobs"}

HostOnAts(u) == Netloc(u) \in AtsHostNames

\* the last link of the line whose host is on an ATS domain, "" if none
LastOnAts(line) ==
    LET on == {k \in 1..Len(line.links) : HostOnAts(line.links[k].url)}
    IN  IF on = {} THEN "" ELSE line.links[Max(on)].url

\* C13 (as stated): the line parsers only ever choose a link whose host is on
\* an ATS domain, and it is the last such link of its line
C13_ApplyUrlOnAtsHost ==
    call.fn = "extract" /\ call.phase = "returned" /\ call.path \in {"once", "table"} =>
        \A u \in OutUrls :
            /\ HostOnAts(u)
            /\ \E i \in 1..Len(call.md) : LastOnAts(call.md[i]) = u

\* the sample URLs that contain the text "top-list"
TopListUrls == {uTop}

\* the last link of the line whose URL names an ATS domain, "" if none
SelectedApply(line) ==
    LET on == {k \in 1..Len(line.links) : HasAtsDomain(Lower(line.links[k].url))}
    IN  IF on = {} THEN "" ELSE line.links[Max(on)].url

\* C14: no extraction path (sections, fallback rescan, run_scan's link
\* filter) produces a candidate whose URL contains "top-list"; in the line
\* parsers every candidate's URL is the selected apply URL of a line, so a
\* line whose selected URL is the placeholder gives no candidate, its other
\* ATS link included.
C14_NoTopList ==
    call.fn = "extract" /\ call.phase = "returned" =>
        /\ OutUrls \cap TopListUrls = {}
        /\ call.path \in {"once", "table"} =>
              /\ \A u \in OutUrls :
                    \E i \in 1..Len(call.md) : SelectedApply(call.md[i]) = u
              /\ \A i \in 1..Len(call.md) :
                    SelectedApply(call.md[i]) \in TopListUrls =>
                        \A k \in 1..Len(call.out) :
                            \A n \in 1..Len(call.md[i].links) :
                                call.out[k].company # call.md[i].links[n].text

\* the fallback rescan met a line holding a Lever link followed by the
\* placeholder, and another line gave a candidate
C14_Witness ==
    /\ call.fn = "extract"
    /\ call.phase = "returned"
    /\ call.path = "table"
    /\ call.mode = "fallback"
    /\ call.md = <<LineTop, LineB>>
    /\ Len(call.out) = 1

\* "<a>.<b>" is a domain suffix of the host
HostSuffix(host, a, b) ==
    Len(host) >= 2 /\ host[Len(host) - 1] = a /\ host[Len(host)] = b

\* the classifier table read row by row: first row whose host pattern is a
\* domain suffix of the host and whose path-shape condition holds
TableRow(url) ==
    LET u == urlparse(url)
        host == StripWww(u.host)
        parts == u.parts
        n == Len(parts)
    IN  IF HostSuffix(host, "lever", "co") /\ n >= 2
        THEN [provider |-> "lever", company |-> parts[1], job |-> parts[2]]
        ELSE IF HostSuffix(host, "greenhouse", "io") /\ n >= 3 /\ parts[2] = "jobs"
        THEN [provider |-> "greenhouse", company |-> parts[1],
              id |-> IF IsDigit(parts[3]) THEN parts[3] ELSE ""]
        ELSE IF HostSuffix(host, "ashbyhq", "com") /\ n >= 2
        THEN [provider |-> "ashby", company |-> parts[1], slug |-> parts[n]]
        ELSE IF HostSuffix(host, "smartrecruiters", "com") /\ n >= 2
        THEN [provider |-> "smartrecruiters", company |-> parts[1],
              id |-> LeadingDigits(parts[n])]
        ELSE IF HostSuffix(host, "recruitee", "com") /\ Len(host) >= 3
        THEN [provider |-> "recruitee", company |-> host[1],
              slug |-> IF n > 0 THEN parts[n] ELSE ""]
        ELSE IF HostSuffix(host, "bamboohr", "com") /\ Len(host) >= 3
        THEN [provider |-> "bamboohr", company |-> host[1]]
        ELSE IF HostSuffix(host, "myworkdayjobs", "com") \/ HostSuffix(host, "workday", "com")
        THEN [provider |-> "workday"]
        ELSE IF HostSuffix(host, "simplify", "jobs")
        THEN [provider |-> "simplify"]
        ELSE IF HostSuffix(host, "oraclecloud", "com")
        THEN [provider |-> "oracle"]
        ELSE [provider |-> "generic"]

\* C15 (as stated): detect returns for every URL, and returns the first row of
\* the classifier table whose host pattern is a domain suffix of the host and
\* whose path shape holds, generic when no row matches
C15_DetectTotalByTable ==
    call.fn = "detect" /\ call.phase = "returned" =>
        \A o \in call.out : ~o.raised /\ o.info = TableRow(call.url)

\* C16 (as stated): branches are requested in the order dev, main, master, each
\* one only after a 404 of the one before; at most one branch's document
\* contributes candidates; all-404 ends the source with no candidates, no error
C16_StopAtFirstNon404 ==
    call.fn = "fetch" =>
        /\ \A j \in 1..Len(call.requested) :
              /\ call.requested[j] = BRANCHES[j]
              /\ j > 1 => call.resp[BRANCHES[j - 1]].status = "404"
        /\ Len(call.used) <= 1
        /\ (\A j \in 1..Len(BRANCHES) : call.resp[BRANCHES[j]].status = "404")
              /\ call.phase # "fetching"
              => call.phase = "returned" /\ call.rows = <<>> /\ call.text = <<>>

\* the "caught up" notifications scan r has sent on channel ch
CaughtUpFor(r, ch) ==
    Cardinality({j \in 1..Len(hist[r].notes) :
                   hist[r].notes[j].kind = "caught_up" /\ hist[r].notes[j].chan = ch})

\* the new items of scan r that passed the filter
Passed(r) == hist[r].enriched \ hist[r].dropped

\* run_scan has returned or raised
Ended(r) == run[r].pc \in {"done", "aborted"}

\* C17 (as stated): a run of run_scan sends "caught up" once per channel if
\* and only if it is not a seed run, notify_when_zero is set and no candidate
\* passed the filter; never together with an item notification
C17_CaughtUpIffZero ==
    \A r \in Runs : \A ch \in {"mac", "phone"} :
        hist[r].entry = "core" =>
            /\ Ended(r) =>
                  CaughtUpFor(r, ch) =
                      IF ~hist[r].seed /\ hist[r].nwz /\ Passed(r) = {} THEN 1 ELSE 0
            /\ CaughtUpFor(r, ch) > 0 => Notified(r, ch) = {} /\ ~hist[r].seed

\* the last k elements of a sequence
Tail_k(seq, k) == SubSeq(seq, Len(seq) - k + 1, Len(seq))

\* C18: after any sequence of _append_feed calls the feed holds at most 500
\* items and they are the most recently appended ones, in append order; an
\* item of the current append is dropped only when no older item is kept
C18_FeedKeepsMostRecent ==
    call.fn = "append_feed" =>
        /\ Len(feed) <= FeedCap
        /\ feed = Tail_k(call.appended, Min({FeedCap, Len(call.appended)}))
        /\ (\E k \in 1..Len(call.items) : call.items[k] \notin Range(feed))
              => Range(feed) \subseteq Range(call.items)

\* a second or later append has pushed the feed over its capacity and older
\* items were cut while items of before the append are still kept
C18_Witness ==
    /\ call.fn = "append_feed" /\ call.n >= 2
    /\ Len(call.before) + Len(call.items) > FeedCap
    /\ Len(feed) = FeedCap
    /\ \E k \in 1..Len(call.before) : call.before[k] \in Range(feed)
    /\ \E k \in 1..Len(call.before) : call.before[k] \notin Range(feed)

\* C19 (as stated): with any recognized keys left out of filters.json the
\* filter step ends without error and decides as if each omitted key were an
\* empty list: no rejection and no priority mark comes from an omitted key
C19_OmittedKeysAreEmpty ==
    call.fn = "filter" /\ call.phase = "returned" =>
        LET Fl == Filled(call.file)
            r == [company |-> call.company]
        IN  /\ ~call.raised
            /\ call.entry = "core" =>
                  /\ call.passes = passes_filters_core(call.company, call.det, Fl)
                  /\ call.urgent = is_priority_core(call.company, call.det, Fl)
            /\ call.entry = "once" =>
                  /\ call.passes = passes_filters_once(r, call.det, Fl)
                  /\ call.urgent = (call.passes /\ is_priority_once(r, call.det, Fl))

\* C20 (as stated): when the gist is configured and reading from it or
\* writing to it fails, main does not abort and cloud_feed.jsonl ends up
\* holding the existing rows followed by the new rows
C20_GistFallbackToFile ==
    call.fn = "cloud" /\ call.phase \in {"done", "aborted"} /\ call.gist_id
        /\ (call.read = "fail" \/ call.write = "fail")
        => call.phase = "done" /\ call.file = call.existing \o call.new_rows

\* the documents a round of requests returned
FetchedDocs(resp) ==
    {resp[BRANCHES[b]].body : b \in {j \in 1..Len(BRANCHES) : resp[BRANCHES[j]].status = "200"}}

\* the rows that text lines inside a role section of the document give
SectionLineRows(md) ==
    UNION {Range(ParseLineTable(md[i]).rows) :
             i \in {j \in 1..Len(md) : ~md[j].heading /\ InSection(md, j)}}

\* C21: in 02_parse_table the whole-document rescan runs exactly when the
\* section pass over all fetched documents gave no candidate; its candidates
\* have empty role and location; when the section pass gave a candidate,
\* every output candidate comes from a text line inside a role section
C21_FallbackOnlyWhenEmpty ==
    call.fn = "table_main" /\ call.phase \in {"rescanned", "done"} =>
        /\ call.rescanned <=> call.section_rows = <<>>
        /\ call.rescanned =>
              \A k \in 1..Len(call.all_rows) :
                  call.all_rows[k].role = "" /\ call.all_rows[k].location = ""
        /\ call.section_rows # <<>> /\ call.phase = "done" =>
              \A k \in 1..Len(call.out) :
                  \E md \in FetchedDocs(call.resp) : call.out[k] \in SectionLineRows(md)

\* the section pass found nothing, the rescan ran over a document whose line
\* outside the sections carries a role and a place, and gave a candidate
C21_Witness ==
    /\ call.fn = "table_main" /\ call.phase = "done"
    /\ call.rescanned /\ call.section_rows = <<>> /\ call.out # <<>>
    /\ \E md \in FetchedDocs(call.resp2) : \E i \in 1..Len(md) :
          /\ RoleLocation(md[i]).role # ""
          /\ \E k \in 1..Len(call.out) : call.out[k].url \in UrlsAt(md, i)

\* the candidate passes the filter of the installation whatever its details
PassesEvery(e, c) ==
    \A Fl \in env.filters, det \in ScrapeResults :
        IF e = "core" THEN passes_filters_core(c.company, det, Fl)
        ELSE passes_filters_once(c, det, Fl)

NotifiedBy(r, c) == c \in Notified(r, "mac") /\ c \in Notified(r, "phone")

\* C22 (as stated): a candidate that a non-seed scan newly recorded in the
\* ledger and that passes the filter is notified by that scan or, when the
\* scan stopped before its notification, by a later finished scan whose
\* document still holds it
C22_RecordedIsEventuallyNotified ==
    \A r1 \in Runs, r2 \in Runs :
        r1 < r2 /\ Ended(r1) /\ Finished(r2) /\ ~hist[r1].seed /\ ~hist[r2].seed =>
            \A c \in hist[r1].news :
                /\ LedgerRow(hist[r1].entry, c) \in seen
                /\ c \in Range(hist[r2].candidates)
                /\ PassesEvery(hist[r1].entry, c)
                => NotifiedBy(r1, c) \/ NotifiedBy(r2, c)

NewUrls(r) == {c.url : c \in hist[r].news}

\* C23 (as stated): with 03_watch_once and run_scan on the same seen.db, in any
\* order and whichever created the table, a URL reported as new by a scan of
\* one entry point is not reported as new by a scan of the other, and a
\* candidate is rejected as a duplicate only if its URL was recorded before
C23_SharedLedgerAgrees ==
    /\ \A r1 \in Runs, r2 \in Runs :
          hist[r1].entry # "" /\ hist[r2].entry # "" /\ hist[r1].entry # hist[r2].entry =>
              NewUrls(r1) \cap NewUrls(r2) = {}
    /\ \A r \in Runs : \A c \in hist[r].rejected :
          \E q \in Runs : q <= r /\ \E c0 \in hist[q].inserted : Strip(c0.url) = Strip(c.url)

\* C24 (as stated): across 03_watch_once scans on one ledger, two candidates
\* equal under the de-dupe key (company.lower().strip(), url.strip()) are
\* never both reported as new
C24_LedgerIdentityIsDedupKey ==
    \A r1 \in Runs, r2 \in Runs :
        hist[r1].entry = "once" /\ hist[r2].entry = "once" =>
            \A c1 \in hist[r1].news, c2 \in hist[r2].news :
                DedupKey(c1) = DedupKey(c2) => r1 = r2 /\ c1 = c2
====
